---- MODULE Spec2Model ----
(***************************************************************************)
(* Model of weir's process execution core.                                 *)
(*                                                                         *)
(*   src/weir/process.py  CompletedProcess.check_returncode (classifier),  *)
(*                        Popen.__init__ (spawn + log_stderr drain thread), *)
(*                        Popen.communicate, check_call / check_output      *)
(*   src/weir/zfs.py      popen / PopenFile (streaming handle), Process,    *)
(*                        log_stderr / iteropen, send / receive, zfs_call,  *)
(*                        zfs_output / _get                                 *)
(*                                                                         *)
(* Text is a sequence of tokens.  Every literal fragment of the five       *)
(* regular expressions of check_returncode is one token, the quote is a    *)
(* token of its own, and names are built from word tokens and "/".         *)
(***************************************************************************)
EXTENDS Integers, Sequences, FiniteSets, TLC

VARIABLES
    scenario,     \* "run" (process.py check_call/check_output), "classify"
                  \* (check_returncode alone), "parse" (the parsers of a
                  \* standard output alone), "stream" (zfs.py send/receive
                  \* and zfs_call)
    exitStatus,   \* the status the child exits with
    errLines,     \* the lines the child writes to its diagnostic stream
    childPc,      \* "unborn" | "running" | "exited"
    childWritten, \* how many of errLines the child has written
    errPipe,      \* lines in the stderr pipe, written and not yet read
    pc,           \* position of the foreground thread
    drainPc,      \* position of the background drain thread
    drainMsg,     \* local variable msg of log_stderr
    err_msg,      \* Popen.err_msg
    logged,       \* messages passed to log.log / log.info, in order
    ret_err,      \* second element of the tuple communicate() returned
    cText,        \* CompletedProcess.stderr handed to check_returncode
    result,       \* outcome of check_returncode
    zDir,         \* zfs.py: "r" (send, p.stdout), "w" (receive, p.stdin), "call" (zfs_call)
    zReturncode,  \* zfs.py Process.returncode
    zFileOpen,    \* PopenFile.file is open
    zPending,     \* writes held in the buffer of PopenFile.file
    zCallDead,    \* the child had exited when the close() in progress began
    zHist,        \* the calls the caller has completed, with their outcomes
    zForwarded,   \* lines the generator of log_stderr yielded to p.stderr
    stdinArg,     \* the stdin keyword of Popen: "None" or "file"
    stdoutArg,    \* the stdout keyword of Popen: "None" or "PIPE"
    cmdLogged,    \* log.debug(' '.join(cmd)) has run
    outLines,     \* the lines the child writes to its standard output
    childOutWritten, \* how many of outLines the child has written
    outPipe,      \* text the child wrote to a piped standard output
    diag,         \* the lines that entered the diagnostic pipe, in order
    ret_out,      \* first element of the tuple communicate() returned
    callerOut,    \* what check_call / check_output returned to the caller
    getRows       \* what zfs.py _get returned

\* variables of the zfs.py streaming handle
streamVars == <<zDir, zReturncode, zFileOpen, zPending, zCallDead, zHist,
                zForwarded>>
\* variables of process.py only
runVars == <<drainMsg, err_msg, ret_err, cText, result>>
\* the arguments of Popen, the child's standard output and what is parsed
\* from it
ioVars == <<stdinArg, stdoutArg, cmdLogged, outLines, childOutWritten, outPipe,
            diag, ret_out, callerOut, getRows>>

vars == <<scenario, exitStatus, errLines, childPc, childWritten, errPipe, pc,
          drainPc, drainMsg, err_msg, logged, ret_err, cText, result,
          zDir, zReturncode, zFileOpen, zPending, zCallDead, zHist, zForwarded,
          stdinArg, stdoutArg, cmdLogged, outLines, childOutWritten, outPipe,
          diag, ret_out, callerOut, getRows>>

-----------------------------------------------------------------------------
(* Bounds *)

\* longest diagnostic output of the child, in lines
MaxLines == 2
\* lines the stderr pipe holds before the child's write blocks
PipeCap == 1
\* calls the caller makes on a streaming handle and its process
MaxOps == 3
\* lines the child writes to its standard output under check_call / check_output
MaxOutLines == 1
\* tokens of a standard output handed to the parsers on its own
MaxOutLen == 5

-----------------------------------------------------------------------------
(* Text *)

Q   == "'"
SP  == " "
NL  == "\n"
TAB == "\t"

Whitespace == {SP, NL, TAB}
\* the tokens made of characters \w matches
WordTokens == {"filesystem", "volume", "file", "system", "tank", "foo", "tag",
               "killed"}

\* Python's None, a str, or an attribute not assigned yet
None    == [is |-> "None", v |-> <<>>]
Unset   == [is |-> "unset", v |-> <<>>]
Str(t)  == [is |-> "str", v |-> t]

RECURSIVE LStrip(_)
LStrip(t) ==
    IF t # <<>> /\ Head(t) \in Whitespace THEN LStrip(Tail(t)) ELSE t

RECURSIVE RStrip(_)
RStrip(t) ==
    IF t # <<>> /\ t[Len(t)] \in Whitespace
    THEN RStrip(SubSeq(t, 1, Len(t) - 1)) ELSE t

\* str.strip(): leading and trailing whitespace removed
Strip(t) == RStrip(LStrip(t))

RECURSIVE Concat(_)
Concat(ls) == IF ls = <<>> THEN <<>> ELSE Head(ls) \o Concat(Tail(ls))

\* position of the first sep in t, 0 when there is none
IndexOf(t, sep) ==
    IF \E i \in 1..Len(t) : t[i] = sep
    THEN CHOOSE i \in 1..Len(t) :
             t[i] = sep /\ \A j \in 1..(i - 1) : t[j] # sep
    ELSE 0

\* str.split(sep): the pieces between the separators, at least one piece
RECURSIVE Split(_, _)
Split(t, sep) ==
    IF IndexOf(t, sep) = 0
    THEN <<t>>
    ELSE <<SubSeq(t, 1, IndexOf(t, sep) - 1)>>
         \o Split(SubSeq(t, IndexOf(t, sep) + 1, Len(t)), sep)

\* str.splitlines(): the lines without their newline; no line for the empty
\* text that follows a final newline
RECURSIVE SplitLines(_)
SplitLines(t) ==
    IF t = <<>> THEN <<>>
    ELSE IF IndexOf(t, NL) = 0 THEN <<t>>
    ELSE <<SubSeq(t, 1, IndexOf(t, NL) - 1)>>
         \o SplitLines(SubSeq(t, IndexOf(t, NL) + 1, Len(t)))

\* a list of rows; each row the tuple of a line's fields
Rows(r) == [is |-> "rows", v |-> r]

\* [tuple(line.split('\t')) for line in text.splitlines()]
TabRows(t) ==
    Rows([i \in 1..Len(SplitLines(t)) |-> Split(SplitLines(t)[i], TAB)])

\* an output that treats None as an empty standard output
CommunicateOutput_EmptyList(stdout) ==
    IF stdout = None THEN Rows(<<>>) ELSE TabRows(stdout.v)

\* process.py communicate(): None when stdout is not a pipe, else the rows
CommunicateOutput(stdout) ==
    IF stdout = None THEN None ELSE TabRows(stdout.v)

\* zfs.py zfs_output: the whole of the standard output, stripped
zfs_output(t) == Strip(t)

\* zfs.py _get: the rows of what zfs_output returned
ZfsGetRows(t) == TabRows(zfs_output(t))

-----------------------------------------------------------------------------
(* Regular expressions of check_returncode *)

Lit(tok)  == [t |-> "lit", v |-> tok]
NotQuote  == [t |-> "notq+", v |-> ""]   \* [^']+ outside a group
Group     == [t |-> "group", v |-> ""]   \* ([^']+)
Word      == [t |-> "w+", v |-> ""]      \* \w+

InClass(e, tok) ==
    IF e.t = "w+" THEN tok \in WordTokens ELSE tok # Q

\* All captures of group 1 over the ways pattern elements pi.. match the
\* text from position ti to "$": the end of the text, or just before a
\* newline that ends it.  "^" without re.MULTILINE matches at position 1 only.
RECURSIVE MatchFrom(_, _, _, _, _)
MatchFrom(pat, txt, pi, ti, cap) ==
    IF pi > Len(pat)
    THEN IF ti = Len(txt) + 1 \/ (ti = Len(txt) /\ txt[ti] = NL)
         THEN {cap} ELSE {}
    ELSE LET e == pat[pi] IN
         IF e.t = "lit"
         THEN IF ti <= Len(txt) /\ txt[ti] = e.v
              THEN MatchFrom(pat, txt, pi + 1, ti + 1, cap) ELSE {}
         ELSE UNION { IF \A j \in ti..k : InClass(e, txt[j])
                      THEN MatchFrom(pat, txt, pi + 1, k + 1,
                               IF e.t = "group" THEN SubSeq(txt, ti, k) ELSE cap)
                      ELSE {}
                      : k \in ti..Len(txt) }

Search(pat, txt) == MatchFrom(pat, txt, 1, 1, <<>>)

PatNotFound ==
    <<Lit("cannot open "), Lit(Q), Group, Lit(Q), Lit(": dataset does not exist")>>
PatExists ==
    <<Lit("cannot create "), Word, Lit(SP), Lit(Q), Group, Lit(Q),
      Lit(": dataset already exists")>>
PatBusy ==
    <<Lit("cannot destroy "), Lit(Q), Group, Lit(Q), Lit(": dataset is busy")>>
PatTagNotFound ==
    <<Lit("cannot release "), Lit(Q), NotQuote, Lit(Q), Lit(" from "), Lit(Q),
      Group, Lit(Q), Lit(": no such tag on this dataset")>>
PatTagExists ==
    <<Lit("cannot hold "), Lit(Q), Group, Lit(Q),
      Lit(": tag already exists on this dataset")>>

\* the table with the error of the busy branch copied from the branch above
Signatures_BusyAsExists ==
    << [pat |-> PatNotFound,    err |-> "DatasetNotFoundError"],
       [pat |-> PatExists,      err |-> "DatasetExistsError"],
       [pat |-> PatBusy,        err |-> "DatasetExistsError"],
       [pat |-> PatTagNotFound, err |-> "HoldTagNotFoundError"],
       [pat |-> PatTagExists,   err |-> "HoldTagExistsError"] >>

\* the table in the order check_returncode tries it
Signatures ==
    << [pat |-> PatNotFound,    err |-> "DatasetNotFoundError"],
       [pat |-> PatExists,      err |-> "DatasetExistsError"],
       [pat |-> PatBusy,        err |-> "DatasetBusyError"],
       [pat |-> PatTagNotFound, err |-> "HoldTagNotFoundError"],
       [pat |-> PatTagExists,   err |-> "HoldTagExistsError"] >>

TypedErrors == { Signatures[k].err : k \in 1..Len(Signatures) }

-----------------------------------------------------------------------------
(* Outcomes *)

NoResult == [kind |-> "pending", returncode |-> 0, stderr |-> None, dataset |-> <<>>]
Returned == [kind |-> "ok", returncode |-> 0, stderr |-> None, dataset |-> <<>>]
Raise(kind, rc, stderr, dataset) ==
    [kind |-> kind, returncode |-> rc, stderr |-> stderr, dataset |-> dataset]

\* superprocess.CompletedProcess.check_returncode, reached by line 82
SuperCheck(rc, stderr) ==
    IF rc # 0 THEN Raise("CalledProcessError", rc, stderr, <<>>) ELSE Returned

\* re.search(pattern, self.stderr) for the k-th signature on, first match wins
RECURSIVE Classify1(_, _)
Classify1(stderr, k) ==
    IF k > Len(Signatures) THEN SuperCheck(1, stderr)
    ELSE IF stderr.is # "str"
         THEN Raise("TypeError", 1, stderr, <<>>)
         ELSE LET m == Search(Signatures[k].pat, stderr.v) IN
              IF m # {}
              THEN Raise(Signatures[k].err, 1, stderr, CHOOSE c \in m : TRUE)
              ELSE Classify1(stderr, k + 1)

\* the signatures tried whatever the return code is
check_returncode_AnyStatus(rc, stderr) ==
    LET r == Classify1(stderr, 1) IN
    IF r.kind \in TypedErrors THEN r ELSE SuperCheck(rc, stderr)

\* the signatures tried for every nonzero return code
check_returncode_AnyFailure(rc, stderr) ==
    IF rc = 0 THEN Returned
    ELSE LET r == Classify1(stderr, 1) IN
         IF r.kind = "CalledProcessError" THEN SuperCheck(rc, stderr) ELSE r

\* CompletedProcess.check_returncode
check_returncode(rc, stderr) ==
    IF rc = 0 THEN Returned
    ELSE IF rc = 1 THEN Classify1(stderr, 1)
    ELSE SuperCheck(rc, stderr)

\* subprocess.Popen.returncode: None, or the exit status
RcNone == [set |-> FALSE, v |-> 0]
Rc(n)  == [set |-> TRUE, v |-> n]

-----------------------------------------------------------------------------
(* Inputs *)

Statuses == {-9, 0, 1, 2}

TankFoo == <<"tank", "/", "foo">>

MsgNotFound(n) == <<"cannot open ", Q>> \o n \o <<Q, ": dataset does not exist">>
MsgExists(w, n) ==
    <<"cannot create ">> \o w \o <<SP, Q>> \o n \o <<Q, ": dataset already exists">>
MsgBusy(n) == <<"cannot destroy ", Q>> \o n \o <<Q, ": dataset is busy">>
MsgTagNotFound(tag, n) ==
    <<"cannot release ", Q>> \o tag \o <<Q, " from ", Q>> \o n
        \o <<Q, ": no such tag on this dataset">>
MsgTagExists(n) ==
    <<"cannot hold ", Q>> \o n \o <<Q, ": tag already exists on this dataset">>

\* lines a child writes to stderr, each ended by its newline
TerminatedLines ==
    { MsgNotFound(TankFoo) \o <<NL>>,
      MsgBusy(<<"tank">>) \o <<NL>>,
      <<SP, "internal error", SP, NL>>,
      <<NL>> }
\* a last line the child did not end with a newline
UnterminatedLines == { <<TAB, "killed">> }

SeqsUpTo(S, n) == UNION { [1..k -> S] : k \in 0..n }

\* what a child may write to stderr: at most MaxLines lines, only the last
\* of which may lack its newline
ChildOutputs ==
    { ls \in SeqsUpTo(TerminatedLines \cup UnterminatedLines, MaxLines) :
        \A i \in 1..Len(ls) - 1 : ls[i] \in TerminatedLines }

\* lines a child writes to its standard output
OutLineSet == { <<"tank", TAB, "foo", NL>> }

\* the tokens of a standard output: a field text, the separators and a blank
OutAlphabet == {"a", TAB, NL, SP}

\* a\tb\tc\nd\te\tf\n
ExampleOut == <<"a", TAB, "b", TAB, "c", NL, "d", TAB, "e", TAB, "f", NL>>

\* standard outputs handed to the parsers on their own
OutTexts == SeqsUpTo(OutAlphabet, MaxOutLen) \cup {ExampleOut}

\* texts handed to check_returncode on its own
Heads ==
    { <<"cannot open ">>, <<"cannot create ", "filesystem", SP>>,
      <<"cannot create ", "file", "system", SP>>, <<"cannot create ", SP>>,
      <<"cannot create ", "tank", "/", "foo", SP>>,
      <<"cannot destroy ">>, <<"cannot hold ">>,
      <<"cannot release ", Q, "tag", Q, " from ">>,
      <<"cannot release ", Q, Q, " from ">>,
      <<"cannot release ">> }
Tails ==
    { <<": dataset does not exist">>, <<": dataset already exists">>,
      <<": dataset is busy">>, <<": no such tag on this dataset">>,
      <<": tag already exists on this dataset">> }
Names ==
    { <<>>, <<"tank">>, TankFoo, <<"tank", SP, "foo">>, <<"tank", Q, "foo">>,
      <<"tank", ": dataset is busy">> }
Before == { <<>>, <<SP>>, <<"internal error", NL>> }
After  == { <<>>, <<NL>>, <<SP>>, <<NL, NL>>, <<NL, "internal error">> }

ClassifyTexts ==
    { b \o h \o <<Q>> \o n \o <<Q>> \o t \o a :
        b \in Before, h \in Heads, n \in Names, t \in Tails, a \in After }
    \cup { <<>>, <<"internal error">> }

-----------------------------------------------------------------------------
(* Initial states *)

InitRun ==
    /\ scenario = "run"
    /\ exitStatus \in Statuses
    /\ errLines \in ChildOutputs
    /\ childPc = "unborn"
    /\ childWritten = 0
    /\ errPipe = <<>>
    /\ pc = "new"
    /\ drainPc = "unstarted"
    /\ drainMsg = <<>>
    /\ err_msg = Unset
    /\ logged = <<>>
    /\ ret_err = Unset
    /\ cText = Unset
    /\ result = NoResult
    /\ zDir = "r"
    /\ zReturncode = RcNone
    /\ zFileOpen = FALSE
    /\ zPending = 0
    /\ zCallDead = FALSE
    /\ zHist = <<>>
    /\ zForwarded = <<>>
    /\ stdinArg \in {"None", "file"}
    /\ stdoutArg \in {"None", "PIPE"}
    /\ cmdLogged = FALSE
    /\ outLines \in SeqsUpTo(OutLineSet, MaxOutLines)
    /\ childOutWritten = 0
    /\ outPipe = <<>>
    /\ diag = <<>>
    /\ ret_out = Unset
    /\ callerOut = Unset
    /\ getRows = Unset

InitClassify ==
    /\ scenario = "classify"
    /\ exitStatus \in Statuses
    /\ cText \in { Str(t) : t \in ClassifyTexts } \cup {None}
    /\ errLines = <<>>
    /\ childPc = "unborn"
    /\ childWritten = 0
    /\ errPipe = <<>>
    /\ pc = "classify_call"
    /\ drainPc = "unstarted"
    /\ drainMsg = <<>>
    /\ err_msg = Unset
    /\ logged = <<>>
    /\ ret_err = Unset
    /\ result = NoResult
    /\ zDir = "r"
    /\ zReturncode = RcNone
    /\ zFileOpen = FALSE
    /\ zPending = 0
    /\ zCallDead = FALSE
    /\ zHist = <<>>
    /\ zForwarded = <<>>
    /\ stdinArg = "None"
    /\ stdoutArg = "None"
    /\ cmdLogged = FALSE
    /\ outLines = <<>>
    /\ childOutWritten = 0
    /\ outPipe = <<>>
    /\ diag = <<>>
    /\ ret_out = Unset
    /\ callerOut = Unset
    /\ getRows = Unset

\* the standard output of a successful command handed to the parsers:
\* communicate() of process.py, and zfs_output with _get of zfs.py
InitParse ==
    /\ scenario = "parse"
    /\ exitStatus = 0
    /\ cText = Unset
    /\ errLines = <<>>
    /\ childPc = "unborn"
    /\ childWritten = 0
    /\ errPipe = <<>>
    /\ pc = "parse_call"
    /\ drainPc = "unstarted"
    /\ drainMsg = <<>>
    /\ err_msg = Unset
    /\ logged = <<>>
    /\ ret_err = Unset
    /\ result = NoResult
    /\ zDir = "r"
    /\ zReturncode = RcNone
    /\ zFileOpen = FALSE
    /\ zPending = 0
    /\ zCallDead = FALSE
    /\ zHist = <<>>
    /\ zForwarded = <<>>
    /\ stdinArg = "None"
    /\ stdoutArg = "PIPE"
    /\ cmdLogged = FALSE
    /\ outLines = <<>>
    /\ childOutWritten = 0
    /\ outPipe \in OutTexts
    /\ diag = <<>>
    /\ ret_out = Unset
    /\ callerOut = Unset
    /\ getRows = Unset

Init == InitRun \/ InitClassify \/ InitParse

\* what a child of send / receive may write to stderr
StreamLines == { <<SP, "internal error", SP, NL>>, MsgNotFound(TankFoo) \o <<NL>> }

\* send() and receive() called without a file
InitStream ==
    /\ scenario = "stream"
    /\ exitStatus \in Statuses
    /\ errLines \in SeqsUpTo(StreamLines, MaxLines)
    /\ zDir \in {"r", "w", "call"}
    /\ childPc = "unborn"
    /\ childWritten = 0
    /\ errPipe = <<>>
    /\ pc = "z_new"
    /\ drainPc = "unstarted"
    /\ drainMsg = <<>>
    /\ err_msg = Unset
    /\ logged = <<>>
    /\ ret_err = Unset
    /\ cText = Unset
    /\ result = NoResult
    /\ zReturncode = RcNone
    /\ zFileOpen = FALSE
    /\ zPending = 0
    /\ zCallDead = FALSE
    /\ zHist = <<>>
    /\ zForwarded = <<>>
    /\ stdinArg = "None"
    /\ stdoutArg = "None"
    /\ cmdLogged = FALSE
    /\ outLines = <<>>
    /\ childOutWritten = 0
    /\ outPipe = <<>>
    /\ diag = <<>>
    /\ ret_out = Unset
    /\ callerOut = Unset
    /\ getRows = Unset

-----------------------------------------------------------------------------
(* The child process *)

\* the child writes its next diagnostic line; the write blocks on a full pipe
Child_Write ==
    /\ childPc = "running"
    /\ childWritten < Len(errLines)
    /\ Len(errPipe) < PipeCap
    /\ errPipe' = Append(errPipe, errLines[childWritten + 1])
    /\ diag' = Append(diag, errLines[childWritten + 1])
    /\ childWritten' = childWritten + 1
    /\ UNCHANGED <<scenario, exitStatus, errLines, childPc, pc, drainPc,
                   drainMsg, err_msg, logged, ret_err, cText, result>>
    /\ UNCHANGED streamVars
    /\ UNCHANGED <<stdinArg, stdoutArg, cmdLogged, outLines, childOutWritten,
                   outPipe, ret_out, callerOut, getRows>>

\* where the child's standard output goes: the diagnostic pipe when stdin is
\* supplied, else a pipe of its own or the caller's own standard output
StdoutTarget == IF stdinArg # "None" THEN "STDERR" ELSE stdoutArg

\* a mistaken redirection: standard output keeps the keyword the caller gave
Child_WriteOut_NoRedirect ==
    /\ childPc = "running"
    /\ childOutWritten < Len(outLines)
    /\ outPipe' = IF stdoutArg = "PIPE"
                     THEN outPipe \o outLines[childOutWritten + 1]
                     ELSE outPipe
    /\ childOutWritten' = childOutWritten + 1
    /\ UNCHANGED <<scenario, exitStatus, errLines, childPc, childWritten,
                   errPipe, pc, drainPc, drainMsg, err_msg, logged, ret_err,
                   cText, result>>
    /\ UNCHANGED streamVars
    /\ UNCHANGED <<stdinArg, stdoutArg, cmdLogged, outLines, diag, ret_out,
                   callerOut, getRows>>

\* the child writes its next line of standard output: into the diagnostic
\* pipe (blocking while it is full), into the stdout pipe, or past the caller
Child_WriteOut ==
    /\ childPc = "running"
    /\ childOutWritten < Len(outLines)
    /\ StdoutTarget = "STDERR" => Len(errPipe) < PipeCap
    /\ errPipe' = IF StdoutTarget = "STDERR"
                     THEN Append(errPipe, outLines[childOutWritten + 1])
                     ELSE errPipe
    /\ diag' = IF StdoutTarget = "STDERR"
                  THEN Append(diag, outLines[childOutWritten + 1])
                  ELSE diag
    /\ outPipe' = IF StdoutTarget = "PIPE"
                     THEN outPipe \o outLines[childOutWritten + 1]
                     ELSE outPipe
    /\ childOutWritten' = childOutWritten + 1
    /\ UNCHANGED <<scenario, exitStatus, errLines, childPc, childWritten, pc,
                   drainPc, drainMsg, err_msg, logged, ret_err, cText, result>>
    /\ UNCHANGED streamVars
    /\ UNCHANGED <<stdinArg, stdoutArg, cmdLogged, outLines, ret_out,
                   callerOut, getRows>>

\* the child closes its streams and exits with exitStatus
Child_Exit ==
    /\ childPc = "running"
    /\ childWritten = Len(errLines)
    /\ childOutWritten = Len(outLines)
    /\ childPc' = "exited"
    /\ UNCHANGED <<scenario, exitStatus, errLines, childWritten, errPipe, pc,
                   drainPc, drainMsg, err_msg, logged, ret_err, cText, result>>
    /\ UNCHANGED streamVars
    /\ UNCHANGED ioVars

-----------------------------------------------------------------------------
(* process.py: Popen.__init__, the log_stderr thread, communicate *)

\* lines 89-92: only one of stdin and stdout may be set
BothSet == stdinArg # "None" /\ stdoutArg # "None"

\* a constructor without the check of lines 91-92
Popen_Spawn_NoCheck ==
    /\ scenario = "run"
    /\ pc = "new"
    /\ cmdLogged' = TRUE
    /\ childPc' = "running"
    /\ pc' = "start_thread"
    /\ UNCHANGED <<scenario, exitStatus, errLines, childWritten, errPipe,
                   drainPc, drainMsg, err_msg, logged, ret_err, cText, result>>
    /\ UNCHANGED streamVars
    /\ UNCHANGED <<stdinArg, stdoutArg, outLines, childOutWritten, outPipe,
                   diag, ret_out, callerOut, getRows>>

\* lines 87-121: ValueError when both stdin and stdout are set; otherwise the
\* command is logged and the process is started with stderr piped
Popen_Spawn ==
    /\ scenario = "run"
    /\ pc = "new"
    /\ IF BothSet
          THEN /\ result' = Raise("ValueError", exitStatus, None, None)
               /\ pc' = "value_error"
               /\ UNCHANGED <<cmdLogged, childPc>>
          ELSE /\ cmdLogged' = TRUE
               /\ childPc' = "running"
               /\ pc' = "start_thread"
               /\ UNCHANGED result
    /\ UNCHANGED <<scenario, exitStatus, errLines, childWritten, errPipe,
                   drainPc, drainMsg, err_msg, logged, ret_err, cText>>
    /\ UNCHANGED streamVars
    /\ UNCHANGED <<stdinArg, stdoutArg, outLines, childOutWritten, outPipe,
                   diag, ret_out, callerOut, getRows>>

\* lines 130-133: t.start(); self.err_thread = t
Popen_StartThread ==
    /\ pc = "start_thread"
    /\ drainPc' = "iter"
    /\ pc' = "set_err_msg"
    /\ UNCHANGED <<scenario, exitStatus, errLines, childPc, childWritten,
                   errPipe, drainMsg, err_msg, logged, ret_err, cText, result>>
    /\ UNCHANGED streamVars
    /\ UNCHANGED ioVars

\* line 134: self.err_msg = None, after the thread was started
Popen_SetErrMsg ==
    /\ pc = "set_err_msg"
    /\ err_msg' = None
    /\ pc' = "constructed"
    /\ UNCHANGED <<scenario, exitStatus, errLines, childPc, childWritten,
                   errPipe, drainPc, drainMsg, logged, ret_err, cText, result>>
    /\ UNCHANGED streamVars
    /\ UNCHANGED ioVars

\* lines 126-128 without the strip
Drain_ReadLine_NoStrip ==
    /\ drainPc = "iter"
    /\ errPipe # <<>>
    /\ drainMsg' = Head(errPipe)
    /\ logged' = Append(logged, drainMsg')
    /\ errPipe' = Tail(errPipe)
    /\ drainPc' = "store"
    /\ UNCHANGED <<scenario, exitStatus, errLines, childPc, childWritten, pc,
                   err_msg, ret_err, cText, result>>
    /\ UNCHANGED streamVars
    /\ UNCHANGED ioVars

\* a drain that reads nothing before the child has exited
Drain_ReadLine_AfterExit ==
    /\ drainPc = "iter"
    /\ childPc = "exited"
    /\ errPipe # <<>>
    /\ drainMsg' = Strip(Head(errPipe))
    /\ logged' = Append(logged, drainMsg')
    /\ errPipe' = Tail(errPipe)
    /\ drainPc' = "store"
    /\ UNCHANGED <<scenario, exitStatus, errLines, childPc, childWritten, pc,
                   err_msg, ret_err, cText, result>>
    /\ UNCHANGED streamVars
    /\ UNCHANGED ioVars

\* lines 126-128: for line in f: msg = line.strip(); log.log(log_level, msg)
Drain_ReadLine ==
    /\ drainPc = "iter"
    /\ errPipe # <<>>
    /\ drainMsg' = Strip(Head(errPipe))
    /\ logged' = Append(logged, drainMsg')
    /\ errPipe' = Tail(errPipe)
    /\ drainPc' = "store"
    /\ UNCHANGED <<scenario, exitStatus, errLines, childPc, childWritten, pc,
                   err_msg, ret_err, cText, result>>
    /\ UNCHANGED streamVars
    /\ UNCHANGED ioVars

\* line 129: self.err_msg = msg
Drain_Store ==
    /\ drainPc = "store"
    /\ err_msg' = Str(drainMsg)
    /\ drainPc' = "iter"
    /\ UNCHANGED <<scenario, exitStatus, errLines, childPc, childWritten,
                   errPipe, pc, drainMsg, logged, ret_err, cText, result>>
    /\ UNCHANGED streamVars
    /\ UNCHANGED ioVars

\* lines 125-126: end-of-stream ends the loop, the with block closes stderr
Drain_Eof ==
    /\ drainPc = "iter"
    /\ errPipe = <<>>
    /\ childPc = "exited"
    /\ drainPc' = "done"
    /\ UNCHANGED <<scenario, exitStatus, errLines, childPc, childWritten,
                   errPipe, pc, drainMsg, err_msg, logged, ret_err, cText, result>>
    /\ UNCHANGED streamVars
    /\ UNCHANGED ioVars

\* what super().communicate() read from the child's standard output: None
\* when the handle has no stdout pipe
PipedStdout == IF StdoutTarget = "PIPE" THEN Str(outPipe) ELSE None

\* lines 137-139: super().communicate() returns once the child has exited;
\* output is None or the rows of the standard output
Popen_Communicate ==
    /\ pc = "constructed"
    /\ childPc = "exited"
    /\ ret_out' = CommunicateOutput(PipedStdout)
    /\ pc' = "join"
    /\ UNCHANGED <<scenario, exitStatus, errLines, childPc, childWritten,
                   errPipe, drainPc, drainMsg, err_msg, logged, ret_err, cText,
                   result>>
    /\ UNCHANGED streamVars
    /\ UNCHANGED <<stdinArg, stdoutArg, cmdLogged, outLines, childOutWritten,
                   outPipe, diag, callerOut, getRows>>

\* line 141 without the join of line 140
Popen_Join_NoJoin ==
    /\ pc = "join"
    /\ ret_err' = err_msg
    /\ pc' = "returned"
    /\ UNCHANGED <<scenario, exitStatus, errLines, childPc, childWritten,
                   errPipe, drainPc, drainMsg, err_msg, logged, cText, result>>
    /\ UNCHANGED streamVars
    /\ UNCHANGED ioVars

\* lines 140-141: self.err_thread.join(); return output, self.err_msg
Popen_Join ==
    /\ pc = "join"
    /\ drainPc = "done"
    /\ ret_err' = err_msg
    /\ pc' = "returned"
    /\ UNCHANGED <<scenario, exitStatus, errLines, childPc, childWritten,
                   errPipe, drainPc, drainMsg, err_msg, logged, cText, result>>
    /\ UNCHANGED streamVars
    /\ UNCHANGED ioVars

\* check_call / check_output: CompletedProcess(args, returncode, stdout,
\* stderr) is built from what communicate() returned and check_returncode runs
Run_Check ==
    /\ pc = "returned"
    /\ cText' = ret_err
    /\ result' = check_returncode(exitStatus, ret_err)
    /\ callerOut' = IF check_returncode(exitStatus, ret_err) = Returned
                       THEN ret_out ELSE Unset
    /\ pc' = "classified"
    /\ UNCHANGED <<scenario, exitStatus, errLines, childPc, childWritten,
                   errPipe, drainPc, drainMsg, err_msg, logged, ret_err>>
    /\ UNCHANGED streamVars
    /\ UNCHANGED <<stdinArg, stdoutArg, cmdLogged, outLines, childOutWritten,
                   outPipe, diag, ret_out, getRows>>

\* check_returncode called on a CompletedProcess of any status and text
Classify_Call ==
    /\ pc = "classify_call"
    /\ result' = check_returncode(exitStatus, cText)
    /\ pc' = "classify_done"
    /\ UNCHANGED <<scenario, exitStatus, errLines, childPc, childWritten,
                   errPipe, drainPc, drainMsg, err_msg, logged, ret_err, cText>>
    /\ UNCHANGED streamVars
    /\ UNCHANGED ioVars

\* process.py lines 138-139 on a standard output that was read from a pipe
Parse_Communicate ==
    /\ pc = "parse_call"
    /\ ret_out' = CommunicateOutput(Str(outPipe))
    /\ pc' = "parse_get"
    /\ UNCHANGED <<scenario, exitStatus, errLines, childPc, childWritten,
                   errPipe, drainPc, drainMsg, err_msg, logged, ret_err, cText,
                   result>>
    /\ UNCHANGED streamVars
    /\ UNCHANGED <<stdinArg, stdoutArg, cmdLogged, outLines, childOutWritten,
                   outPipe, diag, callerOut, getRows>>

\* zfs.py lines 143 and 166-171: _get on the same standard output
Parse_Get ==
    /\ pc = "parse_get"
    /\ getRows' = ZfsGetRows(outPipe)
    /\ pc' = "parse_done"
    /\ UNCHANGED <<scenario, exitStatus, errLines, childPc, childWritten,
                   errPipe, drainPc, drainMsg, err_msg, logged, ret_err, cText,
                   result>>
    /\ UNCHANGED streamVars
    /\ UNCHANGED <<stdinArg, stdoutArg, cmdLogged, outLines, childOutWritten,
                   outPipe, diag, ret_out, callerOut>>

-----------------------------------------------------------------------------
(* zfs.py: Process, log_stderr / iteropen, popen / PopenFile *)

RaisedCPE == "CalledProcessError"

\* a completed call: what was called, how it ended, whether the child had
\* exited when it began, whether it waited for the child, whether the drain
\* thread had finished the diagnostic stream when it ended, the status a
\* raised CalledProcessError carries and the value returned
Call(op, outcome, dead, waited) ==
    [op |-> op, outcome |-> outcome, dead |-> dead, waited |-> waited,
     drained |-> (drainPc = "done"), status |-> RcNone, ret |-> RcNone]

ChildDead == childPc = "exited"

\* subprocess.Popen.poll() / wait() once the child has exited: the status is
\* recorded in returncode; poll() on a running child leaves it None
Reaped == IF ChildDead THEN Rc(exitStatus) ELSE zReturncode

\* subprocess.Popen's own poll() and wait(): no exception for a nonzero status
check_Never(rc) == "ok"

\* the failure raised by the first call that sees it, and not again
check_Once(rc) ==
    IF rc.set /\ rc.v # 0
       /\ \A i \in 1..Len(zHist) : zHist[i].outcome # RaisedCPE
    THEN RaisedCPE ELSE "ok"

\* Process.check, lines 75-77; poll() and wait() return None after it
check(rc) == IF rc.set /\ rc.v # 0 THEN RaisedCPE ELSE "ok"

\* subprocess.Popen's own poll() and wait() return the recorded status
Process_Return_Status(rc) == rc

\* Process.poll / Process.wait, lines 79-85: the value of the call when check()
\* did not raise; neither method has a return statement
Process_Return(rc) == RcNone

\* the truth value of a return code: None and 0 are false
Truthy(rc) == rc.set /\ rc.v # 0

\* PopenFile.close, lines 49-51: returncode = self.process.wait();
\* if returncode: return returncode
close_Return(returncode) ==
    IF Truthy(returncode) THEN returncode ELSE RcNone

\* a call of Process.poll / Process.wait, directly or from close(), on a
\* process whose recorded status is rc
Checking(op, rc, dead, waited) ==
    [Call(op, check(rc), dead, waited) EXCEPT
        !.status = IF check(rc) = RaisedCPE THEN rc ELSE RcNone,
        !.ret = IF check(rc) = RaisedCPE THEN RcNone
                ELSE IF op = "close" THEN close_Return(Process_Return(rc))
                ELSE Process_Return(rc)]

\* send 454 / receive 272 / zfs_call 135: Process(cmd, ...), lines 60-73,
\* starts the child
Z_Process ==
    /\ pc = "z_new"
    /\ childPc' = "running"
    /\ zReturncode' = RcNone
    /\ pc' = "z_log_stderr"
    /\ UNCHANGED <<scenario, exitStatus, errLines, childWritten, errPipe,
                   drainPc, logged, zDir, zFileOpen, zPending, zCallDead, zHist,
                   zForwarded>>
    /\ UNCHANGED runVars
    /\ UNCHANGED ioVars

\* send 455 / receive 273 / zfs_call 136: log_stderr(p), lines 119-131:
\* iteropen starts the thread that runs the generator lines(p.stderr)
Z_LogStderr ==
    /\ pc = "z_log_stderr"
    /\ drainPc' = "z_iter"
    /\ pc' = IF zDir = "call" THEN "z_call_wait" ELSE "z_popen"
    /\ UNCHANGED <<scenario, exitStatus, errLines, childPc, childWritten,
                   errPipe, logged>>
    /\ UNCHANGED streamVars
    /\ UNCHANGED runVars
    /\ UNCHANGED ioVars

\* send 456 / receive 274: popen(p), lines 11-24: PopenFile(p.stdout or
\* p.stdin, p) is returned to the caller
Z_Popen ==
    /\ pc = "z_popen"
    /\ zFileOpen' = TRUE
    /\ zHist' = Append(zHist, Call("spawn", "ok", ChildDead, FALSE))
    /\ pc' = "z_idle"
    /\ UNCHANGED <<scenario, exitStatus, errLines, childPc, childWritten,
                   errPipe, drainPc, logged, zDir, zReturncode, zPending,
                   zCallDead,
                   zForwarded>>
    /\ UNCHANGED runVars
    /\ UNCHANGED ioVars

\* zfs_call, line 137: return p.wait()
ZfsCall_Wait ==
    /\ pc = "z_call_wait"
    /\ ChildDead
    /\ zReturncode' = Reaped
    /\ zHist' = Append(zHist, Checking("wait", zReturncode', TRUE, TRUE))
    /\ pc' = "z_call_done"
    /\ UNCHANGED <<scenario, exitStatus, errLines, childPc, childWritten,
                   errPipe, drainPc, logged, zDir, zFileOpen, zPending,
                   zCallDead,
                   zForwarded>>
    /\ UNCHANGED runVars
    /\ UNCHANGED ioVars

\* lines 124: stderr.readline() returned a line
ZDrain_ReadLine ==
    /\ drainPc = "z_iter"
    /\ errPipe # <<>>
    /\ drainMsg' = Head(errPipe)
    /\ errPipe' = Tail(errPipe)
    /\ drainPc' = "z_poll"
    /\ UNCHANGED <<scenario, exitStatus, errLines, childPc, childWritten, pc,
                   logged, err_msg, ret_err, cText, result>>
    /\ UNCHANGED streamVars
    /\ UNCHANGED ioVars

\* lines 125-130: p.poll() in the drain thread; Process.poll raises for a
\* nonzero status, which ends the generator (stderr is closed) and the
\* thread; otherwise the line is logged when the value of poll() is false,
\* and yielded to the replacement pipe when it is true
ZDrain_Poll ==
    /\ drainPc = "z_poll"
    /\ zReturncode' = Reaped
    /\ IF check(zReturncode') = RaisedCPE
       THEN drainPc' = "died" /\ UNCHANGED <<logged, zForwarded>>
       ELSE /\ drainPc' = "z_iter"
            /\ IF ~Truthy(Process_Return(zReturncode'))
               THEN /\ logged' = Append(logged, Strip(drainMsg))
                    /\ UNCHANGED zForwarded
               ELSE /\ zForwarded' = Append(zForwarded, drainMsg)
                    /\ UNCHANGED logged
    /\ UNCHANGED <<scenario, exitStatus, errLines, childPc, childWritten,
                   errPipe, pc, zDir, zFileOpen, zPending, zCallDead, zHist>>
    /\ UNCHANGED runVars
    /\ UNCHANGED ioVars

\* lines 124, 129-130: readline() returned '' at end-of-stream
ZDrain_Eof ==
    /\ drainPc = "z_iter"
    /\ errPipe = <<>>
    /\ ChildDead
    /\ drainPc' = "done"
    /\ UNCHANGED <<scenario, exitStatus, errLines, childPc, childWritten,
                   errPipe, pc, logged>>
    /\ UNCHANGED streamVars
    /\ UNCHANGED runVars
    /\ UNCHANGED ioVars

CanCall == pc = "z_idle" /\ Len(zHist) <= MaxOps

\* PopenFile.__getattr__, lines 32-33: file.write(data) on the stdin pipe.
\* The data stays in the file object's buffer, or it is written to the pipe
\* together with what was buffered; a write to the pipe of a child that has
\* exited fails with EPIPE.
H_Write ==
    /\ CanCall
    /\ zDir = "w"
    /\ \/ /\ ~zFileOpen
          /\ zHist' = Append(zHist, Call("write", "ValueError", ChildDead, FALSE))
          /\ UNCHANGED zPending
       \/ /\ zFileOpen
          /\ zPending' = zPending + 1
          /\ zHist' = Append(zHist, Call("write", "ok", ChildDead, FALSE))
       \/ /\ zFileOpen
          /\ zPending' = 0
          /\ zHist' = Append(zHist,
                 Call("write", IF ChildDead THEN "IOError" ELSE "ok",
                      ChildDead, FALSE))
    /\ UNCHANGED <<scenario, exitStatus, errLines, childPc, childWritten,
                   errPipe, pc, drainPc, logged, zDir, zReturncode, zFileOpen,
                   zCallDead,
                   zForwarded>>
    /\ UNCHANGED runVars
    /\ UNCHANGED ioVars

\* PopenFile.close, line 48: self.file.close().  Closing flushes the buffer;
\* when the flush fails the exception leaves close() before line 49.
H_Close ==
    /\ CanCall
    /\ zFileOpen' = FALSE
    /\ zPending' = 0
    /\ IF zFileOpen /\ zPending > 0 /\ ChildDead
       THEN /\ zHist' = Append(zHist, Call("close", "IOError", ChildDead, FALSE))
            /\ UNCHANGED <<pc, zCallDead>>
       ELSE /\ pc' = "z_close_wait"
            /\ zCallDead' = ChildDead
            /\ UNCHANGED zHist
    /\ UNCHANGED <<scenario, exitStatus, errLines, childPc, childWritten,
                   errPipe, drainPc, logged, zDir, zReturncode,
                   zForwarded>>
    /\ UNCHANGED runVars
    /\ UNCHANGED ioVars

\* PopenFile.close, lines 49-51: self.process.wait() returns when the child
\* has exited, or raises; it returns None, so close() returns None
H_CloseWait ==
    /\ pc = "z_close_wait"
    /\ ChildDead
    /\ zReturncode' = Reaped
    /\ zHist' = Append(zHist, Checking("close", zReturncode', zCallDead, TRUE))
    /\ pc' = "z_idle"
    /\ UNCHANGED <<scenario, exitStatus, errLines, childPc, childWritten,
                   errPipe, drainPc, logged, zDir, zFileOpen, zPending,
                   zCallDead,
                   zForwarded>>
    /\ UNCHANGED runVars
    /\ UNCHANGED ioVars

\* Process.wait, lines 83-85, called by the caller on handle.process
P_Wait ==
    /\ CanCall
    /\ ChildDead
    /\ zReturncode' = Reaped
    /\ zHist' = Append(zHist, Checking("wait", zReturncode', TRUE, TRUE))
    /\ UNCHANGED <<scenario, exitStatus, errLines, childPc, childWritten,
                   errPipe, pc, drainPc, logged, zDir, zFileOpen, zPending,
                   zCallDead,
                   zForwarded>>
    /\ UNCHANGED runVars
    /\ UNCHANGED ioVars

\* Process.poll, lines 79-81, called by the caller on handle.process
P_Poll ==
    /\ CanCall
    /\ zReturncode' = Reaped
    /\ zHist' = Append(zHist, Checking("poll", zReturncode', ChildDead, FALSE))
    /\ UNCHANGED <<scenario, exitStatus, errLines, childPc, childWritten,
                   errPipe, pc, drainPc, logged, zDir, zFileOpen, zPending,
                   zCallDead,
                   zForwarded>>
    /\ UNCHANGED runVars
    /\ UNCHANGED ioVars

-----------------------------------------------------------------------------

Next ==
    \/ Child_Write
    \/ Child_WriteOut
    \/ Child_Exit
    \/ Popen_Spawn
    \/ Popen_StartThread
    \/ Popen_SetErrMsg
    \/ Drain_ReadLine
    \/ Drain_Store
    \/ Drain_Eof
    \/ Popen_Communicate
    \/ Popen_Join
    \/ Run_Check
    \/ Classify_Call
    \/ Parse_Communicate
    \/ Parse_Get

Spec == Init /\ [][Next]_vars

\* check_call / check_output alone: the child, the drain thread and the
\* foreground thread
ChildSteps == Child_Write \/ Child_WriteOut \/ Child_Exit
DrainSteps == Drain_ReadLine \/ Drain_Store \/ Drain_Eof
ForegroundSteps ==
    \/ Popen_Spawn
    \/ Popen_StartThread
    \/ Popen_SetErrMsg
    \/ Popen_Communicate
    \/ Popen_Join
    \/ Run_Check

NextRun == ChildSteps \/ DrainSteps \/ ForegroundSteps

\* termination does not depend on what the lines say: two kinds of line and
\* two statuses
InitRunFair ==
    /\ InitRun
    /\ exitStatus \in {0, 1}
    /\ errLines \in SeqsUpTo(StreamLines, MaxLines)

\* the operating system runs the child while it can write or exit, and the
\* interpreter runs each of its two threads while the thread can take a step
SpecRunFair ==
    /\ InitRunFair
    /\ [][NextRun]_vars
    /\ WF_vars(ChildSteps)
    /\ WF_vars(DrainSteps)
    /\ WF_vars(ForegroundSteps)

NextStream ==
    \/ Child_Write
    \/ Child_Exit
    \/ Z_Process
    \/ Z_LogStderr
    \/ Z_Popen
    \/ ZfsCall_Wait
    \/ ZDrain_ReadLine
    \/ ZDrain_Poll
    \/ ZDrain_Eof
    \/ H_Write
    \/ H_Close
    \/ H_CloseWait
    \/ P_Wait
    \/ P_Poll

SpecStream == InitStream /\ [][NextStream]_vars

-----------------------------------------------------------------------------
(* Claims about process.py *)

Last(ls) == ls[Len(ls)]

\* the foreground thread has received communicate()'s return value
CommunicateReturned == scenario = "run" /\ pc \in {"returned", "classified"}
\* check_returncode has run
Checked == pc \in {"classified", "classify_done"}

Matching(t) == { k \in 1..Len(Signatures) : Search(Signatures[k].pat, t) # {} }

\* C1: whenever the child wrote at least one diagnostic line, the last-line
\* value communicate() returns is the stripped final line the child wrote,
\* never None and never an earlier line.
C1_LastLineReturned ==
    (CommunicateReturned /\ diag # <<>>)
        => ret_err = Str(Strip(Last(diag)))

\* C2: when communicate() has returned, and so whenever check_returncode
\* runs, the drain thread has read the stream to its end and has terminated.
C2_DrainEndsBeforeReturn ==
    CommunicateReturned
        => /\ drainPc = "done"
           /\ errPipe = <<>>
           /\ diag = errLines \/ StdoutTarget = "STDERR"
           /\ Len(logged) = Len(diag)

C2_Witness ==
    /\ scenario = "run"
    /\ pc = "classified"
    /\ Len(errLines) = MaxLines
    /\ drainPc = "done"

\* C3: an invocation whose child exits with status 0 does not raise, whatever
\* the diagnostic text is.
C3_StatusZeroReturns ==
    (Checked /\ exitStatus = 0) => result = Returned

C3_Witness ==
    /\ pc = "classified"
    /\ exitStatus = 0
    /\ ret_err.is = "str"
    /\ Matching(ret_err.v) # {}
    /\ result = Returned

\* names ([^']+) accepts, words \w+ accepts
GoodNames == { n \in Names : n # <<>> /\ \A i \in 1..Len(n) : n[i] # Q }
TypeWords == { <<"filesystem">>, <<"volume">>, <<"file", "system">> }
OrNewline(m) == { m, m \o <<NL>> }

\* the typed errors the five signatures assign to a text, written out from
\* the messages of the tool
Expected(t) ==
    { <<"DatasetNotFoundError", n>> :
        n \in { m \in GoodNames : t \in OrNewline(MsgNotFound(m)) } }
    \cup { <<"DatasetExistsError", n>> :
        n \in { m \in GoodNames :
                  \E w \in TypeWords : t \in OrNewline(MsgExists(w, m)) } }
    \cup { <<"DatasetBusyError", n>> :
        n \in { m \in GoodNames : t \in OrNewline(MsgBusy(m)) } }
    \cup { <<"HoldTagNotFoundError", n>> :
        n \in { m \in GoodNames : t \in OrNewline(MsgTagNotFound(<<"tag">>, m)) } }
    \cup { <<"HoldTagExistsError", n>> :
        n \in { m \in GoodNames : t \in OrNewline(MsgTagExists(m)) } }

\* C4: for status 1 a text of one of the five known forms raises the typed
\* error of that form with the name quoted in the text; a text of no known
\* form raises none of them; at most one signature matches a text.
C4_TypedErrorForSignature ==
    (Checked /\ exitStatus = 1 /\ cText.is = "str")
        => /\ Cardinality(Expected(cText.v)) <= 1
           /\ Cardinality(Matching(cText.v)) <= 1
           /\ \A e \in Expected(cText.v) :
                  result.kind = e[1] /\ result.dataset = e[2]
           /\ Expected(cText.v) = {} =>
                  result = Raise("CalledProcessError", 1, cText, <<>>)

C4_Witness ==
    /\ pc = "classify_done"
    /\ exitStatus = 1
    /\ cText = Str(MsgTagNotFound(<<"tag">>, TankFoo))
    /\ result.kind = "HoldTagNotFoundError"
    /\ result.dataset = TankFoo

\* C5: a nonzero status with no diagnostic line recorded by the drain gives
\* the generic failure CalledProcessError for that status.
C5_NoTextGivesGenericFailure ==
    (scenario = "run" /\ pc = "classified" /\ exitStatus # 0 /\ logged = <<>>)
        => /\ result.kind = "CalledProcessError"
           /\ result.returncode = exitStatus

C7_OtherStatusGeneric ==
    Checked
        => /\ exitStatus \notin {0, 1} =>
                result = Raise("CalledProcessError", exitStatus, cText, <<>>)
           /\ result.kind \in TypedErrors => exitStatus = 1

C7_Witness ==
    /\ pc = "classified"
    /\ exitStatus < 0
    /\ cText.is = "str"
    /\ Matching(cText.v) # {}
    /\ result.kind = "CalledProcessError"

-----------------------------------------------------------------------------
(* Claims about the arguments and the standard output in process.py *)

\* C13: constructing a handle with both stdin and stdout set raises
\* ValueError before anything else happens: no child is started, no drain
\* thread is started and the invocation is not logged; with at most one of
\* them set the constructor does not raise it, logs the invocation and
\* starts the child.
C13_BothSetFailsFast ==
    (scenario = "run" /\ pc # "new")
        => IF BothSet
           THEN /\ pc = "value_error"
                /\ result = Raise("ValueError", exitStatus, None, None)
                /\ childPc = "unborn"
                /\ drainPc = "unstarted"
                /\ ~cmdLogged
                /\ logged = <<>>
           ELSE /\ pc # "value_error"
                /\ result.kind # "ValueError"
                /\ cmdLogged
                /\ childPc # "unborn"

C13_Witness ==
    /\ scenario = "run"
    /\ pc = "value_error"
    /\ stdinArg = "file"
    /\ stdoutArg = "PIPE"

\* the text without the newline that ends it
WithoutFinalNewline(t) ==
    IF t # <<>> /\ t[Len(t)] = NL THEN SubSeq(t, 1, Len(t) - 1) ELSE t

\* the lines of a text: one for every newline, and one for what follows the
\* last newline unless nothing follows it
LineCount(t) ==
    Cardinality({ k \in 1..Len(t) : t[k] = NL })
        + (IF t # <<>> /\ t[Len(t)] # NL THEN 1 ELSE 0)

\* the pieces joined again with sep between them
RECURSIVE Join(_, _)
Join(pieces, sep) ==
    IF pieces = <<>> THEN <<>>
    ELSE IF Len(pieces) = 1 THEN pieces[1]
    ELSE pieces[1] \o <<sep>> \o Join(Tail(pieces), sep)

\* rows are the rows of text: one row per line, in order, no field holds a
\* tab or a newline, and the fields joined by tabs, the rows by newlines, give
\* the text back
IsRowsOf(rows, t) ==
    /\ Len(rows) = LineCount(t)
    /\ \A r \in 1..Len(rows) :
           /\ Len(rows[r]) >= 1
           /\ \A f \in 1..Len(rows[r]) :
                  \A k \in 1..Len(rows[r][f]) : rows[r][f][k] \notin {TAB, NL}
    /\ Join([r \in 1..Len(rows) |-> Join(rows[r], TAB)], NL)
           = WithoutFinalNewline(t)

\* communicate() has built its output
OutputBuilt ==
    \/ scenario = "run" /\ pc \in {"join", "returned", "classified"}
    \/ scenario = "parse" /\ pc \in {"parse_get", "parse_done"}

FailureErrors == TypedErrors \cup {"CalledProcessError"}

\* C15: when a captured command exits with a nonzero status, the capture
\* raises the failure error and returns nothing to the caller, whatever the
\* child wrote to its standard output.
C15_FailureReturnsNoRows ==
    (/\ scenario = "run" /\ pc = "classified"
     /\ StdoutTarget = "PIPE" /\ exitStatus # 0)
        => /\ result.kind \in FailureErrors
           /\ callerOut = Unset

\* C16: with a diagnostic pipe that holds PipeCap lines, whatever the child
\* writes before it closes its streams and exits, check_call / check_output
\* eventually return or raise: the child does not stay blocked on the full
\* pipe and the foreground does not stay blocked on the join.
C16_EventuallyReturns == <>(pc \in {"classified", "value_error"})

C16_Witness ==
    /\ scenario = "run"
    /\ pc = "classified"
    /\ Len(diag) > PipeCap
    /\ drainPc = "done"

\* C17: whenever stdin is supplied, the child's standard output goes to the
\* diagnostic pipe: every line it writes there is read and logged by the
\* drain thread and may be the last line, the handle has no stdout pipe, and
\* communicate() returns None as its output.
C17_StdoutRedirectedToDiagnostic ==
    (scenario = "run" /\ stdinArg # "None" /\ pc # "value_error")
        => /\ StdoutTarget # "PIPE"
           /\ outPipe = <<>>
           /\ Len(diag) = childWritten + childOutWritten
           /\ OutputBuilt => ret_out = None
           /\ CommunicateReturned =>
                  /\ Len(logged) = Len(errLines) + Len(outLines)
                  /\ \A k \in 1..Len(outLines) :
                         \E j \in 1..Len(logged) :
                             logged[j] = Strip(outLines[k])
                  /\ ret_err.is = "str" => ret_err = Str(Strip(Last(diag)))

C17_Witness ==
    /\ scenario = "run"
    /\ pc = "classified"
    /\ stdinArg = "file"
    /\ errLines # <<>>
    /\ outLines # <<>>
    /\ ret_out = None
    /\ ret_err = Str(Strip(Last(outLines)))

-----------------------------------------------------------------------------
(* Claims about the streaming handle of zfs.py *)

Calls(op) == { i \in 1..Len(zHist) : zHist[i].op = op }
Raising   == { i \in 1..Len(zHist) : zHist[i].outcome = RaisedCPE }

C10_RaisedOnce == Cardinality(Raising) <= 1

\* C10 amended: the failure is raised again by every later call: once a call
\* has raised it, every later wait() and poll() raises it, and no later
\* close() returns normally.
C10_RaisedByEveryLaterCall ==
    \A i \in Raising : \A j \in (i + 1)..Len(zHist) :
        /\ zHist[j].op \in {"wait", "poll"} => zHist[j].outcome = RaisedCPE
        /\ zHist[j].op = "close" => zHist[j].outcome \in {RaisedCPE, "IOError"}

C10_Witness ==
    /\ scenario = "stream"
    /\ \E i \in Calls("close") : \E j \in Calls("wait") : \E k \in Calls("poll") :
           /\ i < j /\ j < k
           /\ zHist[i].outcome = RaisedCPE
           /\ zHist[j].outcome = RaisedCPE
           /\ zHist[k].outcome = RaisedCPE

\* the error Python raises for an operation on a closed file object; the only
\* error in zfs.py that tells the caller the handle is closed
LifecycleErrors == {"ValueError"}

\* C11: Closed is terminal: once close() on a streaming handle has completed,
\* every further operation on the handle or its process (close, wait, poll,
\* write) fails with a lifecycle error; it neither succeeds nor raises
\* another error.
C11_ClosedIsTerminal ==
    \A i \in Calls("close") :
        zHist[i].waited =>
            \A j \in (i + 1)..Len(zHist) :
                zHist[j].outcome \in LifecycleErrors

\* a call that reports the final status of the process: a close() that
\* waited, a wait(), and a poll() of a process that has exited
ReportsStatus(i) ==
    /\ zHist[i].op \in {"close", "wait", "poll"}
    /\ zHist[i].waited \/ (zHist[i].op = "poll" /\ zHist[i].dead)

\* C12: on every path that reports a final status without communicate()
\* (the wait() of zfs_call, close() on a streaming handle, wait() and poll()
\* on the process) the drain thread has read the diagnostic stream to its
\* end and has terminated before the status is returned or the failure is
\* raised.
C12_DrainedBeforeStatus ==
    \A i \in 1..Len(zHist) : ReportsStatus(i) => zHist[i].drained

\* the calls that end in Process.poll or Process.wait
PollsOrWaits ==
    { i \in 1..Len(zHist) :
        \/ zHist[i].op \in {"wait", "poll"}
        \/ zHist[i].op = "close" /\ zHist[i].waited }

\* the child had exited, so its status was recorded, when call i checked it
StatusRecorded(i) == zHist[i].waited \/ zHist[i].dead

\* C18: Process.poll() and Process.wait() never return a nonzero value: they
\* return None while the child runs and after it exited with status 0, and
\* raise CalledProcessError with the exit status whenever the recorded status
\* is nonzero; so zfs_call returns None on success and PopenFile.close()
\* never returns a return code.
C18_NoneOrRaise ==
    /\ \A i \in PollsOrWaits :
           /\ zHist[i].ret = RcNone
           /\ IF StatusRecorded(i) /\ exitStatus # 0
              THEN /\ zHist[i].outcome = RaisedCPE
                   /\ zHist[i].status = Rc(exitStatus)
              ELSE /\ zHist[i].outcome = "ok"
                   /\ zHist[i].status = RcNone
    /\ \A i \in Calls("close") : zHist[i].ret = RcNone
    /\ (zDir = "call" /\ exitStatus = 0 /\ pc = "z_call_done") =>
           /\ Len(zHist) = 1
           /\ zHist[1].op = "wait"
           /\ zHist[1].outcome = "ok"
           /\ zHist[1].ret = RcNone

C18_Witness ==
    /\ scenario = "stream"
    /\ exitStatus = 2
    /\ \E i \in Calls("poll") : \E j \in Calls("close") :
           /\ ~zHist[i].dead /\ zHist[i].outcome = "ok"
           /\ zHist[j].waited /\ zHist[j].outcome = RaisedCPE
           /\ zHist[j].status = Rc(2)

\* C19: every line the child writes to its diagnostic stream is logged or
\* forwarded on the replacement p.stderr pipe, also when the child exits with
\* a nonzero status: the drain thread reads until end-of-stream and does not
\* stop early because the process has failed.
C19_EveryLineLoggedOrForwarded ==
    scenario = "stream" =>
        /\ drainPc # "died"
        /\ (ChildDead /\ drainPc = "done") =>
               Len(logged) + Len(zForwarded) = Len(errLines)

\* the tabs of line i of the text
TabsOfLine(t, i) ==
    Cardinality({ k \in 1..Len(t) :
        /\ t[k] = TAB
        /\ Cardinality({ j \in 1..(k - 1) : t[j] = NL }) = i - 1 })

\* C20: for every standard output of a successful command _get returns one
\* tuple per line, each with one field more than the line has tabs, also
\* when the first line starts with an empty field or the last line ends with
\* one: the strip() of zfs_output changes no row's number of fields.
C20_StripKeepsFieldCounts ==
    (scenario = "parse" /\ pc = "parse_done")
        => /\ Len(getRows.v) = LineCount(outPipe)
           /\ \A i \in 1..Len(getRows.v) :
                  Len(getRows.v[i]) = TabsOfLine(outPipe, i) + 1

====
